---------------------------- MODULE Spec2Model ----------------------------
(***************************************************************************)
(* A model of ctparse's time rules (ctparse/time/rules.py) and of its      *)
(* naive-bayes scorer (ctparse/nb_scorer.py).                              *)
(*                                                                         *)
(* The state is one parse in progress: the reference instant ts, the       *)
(* adjacent productions `prod` a rule is matched against, and `last`, the  *)
(* record of the most recent rule application (rule, arguments, result);   *)
(* and the scorer: its trained model nb and the last two scorings.         *)
(* Every rule builder is an operator named as in the source; every         *)
(* builder has one action that applies it to the productions its           *)
(* @rule(...) pattern accepts.                                             *)
(***************************************************************************)
EXTENDS Integers, Sequences, FiniteSets, TLC

VARIABLES ts, prod, last, nb, scored

vars == <<ts, prod, last, nb, scored>>

(***************************************************************************)
(* Python's None for a numeric field; an unset string is <<>>.             *)
(***************************************************************************)
None == -1

(***************************************************************************)
(* datetime / calendar arithmetic (proleptic Gregorian, as CPython's       *)
(* datetime module computes it).                                           *)
(***************************************************************************)
isleap(y) == (y % 4 = 0) /\ ((y % 100 # 0) \/ (y % 400 = 0))

DaysInMonthTable == <<31, 28, 31, 30, 31, 30, 31, 31, 30, 31, 30, 31>>

\* calendar.monthrange(year, month)[1]
monthrange(y, m) == IF m = 2 /\ isleap(y) THEN 29 ELSE DaysInMonthTable[m]

DaysBeforeYear(y) ==
    (y - 1) * 365 + ((y - 1) \div 4) - ((y - 1) \div 100) + ((y - 1) \div 400)

RECURSIVE DaysBeforeMonth(_, _)
DaysBeforeMonth(y, m) ==
    IF m = 1 THEN 0 ELSE DaysBeforeMonth(y, m - 1) + monthrange(y, m - 1)

\* date.toordinal(): 0001-01-01 is day 1
toordinal(d) == DaysBeforeYear(d.year) + DaysBeforeMonth(d.year, d.month) + d.day

DaysInYear(y) == IF isleap(y) THEN 366 ELSE 365

RECURSIVE YearOfOrdinal(_, _)
YearOfOrdinal(n, y) ==
    IF n <= DaysBeforeYear(y) THEN YearOfOrdinal(n, y - 1)
    ELSE IF n > DaysBeforeYear(y) + DaysInYear(y) THEN YearOfOrdinal(n, y + 1)
    ELSE y

RECURSIVE MonthOfOrdinal(_, _, _)
MonthOfOrdinal(n, y, m) ==
    IF n > DaysBeforeYear(y) + DaysBeforeMonth(y, m) + monthrange(y, m)
    THEN MonthOfOrdinal(n, y, m + 1)
    ELSE m

\* date.fromordinal(n)
fromordinal(n) ==
    LET y == YearOfOrdinal(n, (n \div 366) + 1)
        m == MonthOfOrdinal(n, y, 1)
    IN  [year |-> y, month |-> m,
         day |-> n - DaysBeforeYear(y) - DaysBeforeMonth(y, m)]

\* date.weekday(): Monday is 0
weekday(d) == (toordinal(d) + 6) % 7

\* a datetime: the date fields plus hour, minute, second
datetime(y, mo, d, h, mi, s) ==
    [year |-> y, month |-> mo, day |-> d, hour |-> h, minute |-> mi, second |-> s]

date(dt) == [year |-> dt.year, month |-> dt.month, day |-> dt.day]

SecondOfDay(dt) == (dt.hour * 60 + dt.minute) * 60 + dt.second

\* datetime.__le__
DtLE(a, b) ==
    \/ toordinal(a) < toordinal(b)
    \/ toordinal(a) = toordinal(b) /\ SecondOfDay(a) <= SecondOfDay(b)

\* datetime + timedelta(days=n)
AddDays(dt, n) ==
    LET d == fromordinal(toordinal(dt) + n)
    IN  datetime(d.year, d.month, d.day, dt.hour, dt.minute, dt.second)

(***************************************************************************)
(* dateutil.relativedelta: the relative fields years, months, days (weeks  *)
(* are folded into days by the constructor), the absolute fields month,    *)
(* day, hour, minute, and weekday (an int n means the weekday n, +1).      *)
(***************************************************************************)
relativedelta ==
    [years |-> 0, months |-> 0, days |-> 0,
     month |-> None, day |-> None, hour |-> None, minute |-> None,
     weekday |-> None]

\* dt + relativedelta, that is relativedelta.__radd__(dt)
RAdd(dt, rd) ==
    LET year0  == dt.year + rd.years
        month0 == (IF rd.month # None THEN rd.month ELSE dt.month) + rd.months
        year   == IF month0 > 12 THEN year0 + 1
                  ELSE IF month0 < 1 THEN year0 - 1 ELSE year0
        month  == IF month0 > 12 THEN month0 - 12
                  ELSE IF month0 < 1 THEN month0 + 12 ELSE month0
        want   == IF rd.day # None THEN rd.day ELSE dt.day
        day    == IF monthrange(year, month) < want
                  THEN monthrange(year, month) ELSE want
        repl   == datetime(year, month, day,
                           IF rd.hour # None THEN rd.hour ELSE dt.hour,
                           IF rd.minute # None THEN rd.minute ELSE dt.minute,
                           dt.second)
        ret    == AddDays(repl, rd.days)
    IN  IF rd.weekday # None
        THEN AddDays(ret, (7 - weekday(ret) + rd.weekday) % 7)
        ELSE ret

(***************************************************************************)
(* dateutil.rrule(MONTHLY, dtstart, byweekday=w, bymonthday=d, count=1)[0] *)
(* walks the months from dtstart's month on and yields the first day of    *)
(* month d that exists, falls on weekday w and is not before dtstart.      *)
(***************************************************************************)
RECURSIVE rruleMonthly(_, _, _, _, _)
rruleMonthly(dtstart, y, m, w, d) ==
    LET cand == datetime(y, m, d, dtstart.hour, dtstart.minute, dtstart.second)
    IN  IF /\ d <= monthrange(y, m)
           /\ weekday(cand) = w
           /\ DtLE(dtstart, cand)
        THEN cand
        ELSE IF m = 12 THEN rruleMonthly(dtstart, y + 1, 1, w, d)
             ELSE rruleMonthly(dtstart, y, m + 1, w, d)

rrule(dtstart, w, d) == rruleMonthly(dtstart, dtstart.year, dtstart.month, w, d)

(***************************************************************************)
(* Python strings are sequences of characters.  The umlauts of the source  *)
(* are written "ue" (u umlaut) and "ae" (a umlaut), one character each.    *)
(***************************************************************************)
S_morning == <<"m", "o", "r", "n", "i", "n", "g">>
S_afternoon == <<"a", "f", "t", "e", "r", "n", "o", "o", "n">>
S_beforenoon == <<"b", "e", "f", "o", "r", "e", "n", "o", "o", "n">>
S_noon == <<"n", "o", "o", "n">>
S_evening == <<"e", "v", "e", "n", "i", "n", "g">>
S_night == <<"n", "i", "g", "h", "t">>
S_early == <<"e", "a", "r", "l", "y">>
S_late == <<"l", "a", "t", "e">>
S_mor == <<"m", "o", "r">>
S_frueh == <<"f", "r", "ue", "h">>
S_after == <<"a", "f", "t", "e", "r">>
S_nach == <<"n", "a", "c", "h">>
S_vor == <<"v", "o", "r">>
S_mittag == <<"m", "i", "t", "t", "a", "g">>
S_abend == <<"a", "b", "e", "n", "d">>
S_spaet == <<"s", "p", "ae", "t">>
S_nacht == <<"n", "a", "c", "h", "t">>

\* str.startswith
startswith(s, p) == Len(p) <= Len(s) /\ SubSeq(s, 1, Len(p)) = p

\* `p in s` for strings
contains(s, p) ==
    \E i \in 1..(Len(s) - Len(p) + 1) : SubSeq(s, i, i + Len(p) - 1) = p

UpperCase ==
    [c \in {"A", "E", "M", "N", "V"} |->
        CASE c = "A" -> "a" [] c = "E" -> "e" [] c = "M" -> "m"
          [] c = "N" -> "n" [] c = "V" -> "v"]

\* str.lower
lower(s) == [i \in 1..Len(s) |-> IF s[i] \in DOMAIN UpperCase THEN UpperCase[s[i]] ELSE s[i]]

RECURSIVE lstrip(_)
lstrip(s) == IF s # <<>> /\ Head(s) = " " THEN lstrip(Tail(s)) ELSE s

RECURSIVE rstrip(_)
rstrip(s) ==
    IF s # <<>> /\ s[Len(s)] = " " THEN rstrip(SubSeq(s, 1, Len(s) - 1)) ELSE s

\* str.strip
strip(s) == rstrip(lstrip(s))

\* the normalised part-of-day word (the if/elif chain on pod)
podTag(pod0) ==
    LET pod == strip(lower(pod0))
    IN  IF startswith(pod, S_mor) \/ contains(pod, S_frueh) \/ startswith(pod, S_early)
             THEN S_morning
        ELSE IF startswith(pod, S_after) \/ startswith(pod, S_nach) THEN S_afternoon
        ELSE IF startswith(pod, S_vor) THEN S_beforenoon
        ELSE IF pod = S_noon \/ pod = S_evening \/ pod = S_night THEN pod
        ELSE IF startswith(pod, S_mittag) THEN S_noon
        ELSE IF startswith(pod, S_abend) \/ startswith(pod, S_spaet)
                \/ startswith(pod, S_late) THEN S_evening
        ELSE IF startswith(pod, S_nacht) THEN S_night
        ELSE pod

\* the normalised modifier (the `if mod:` block); <<>> is both '' and None
modTag(mod0) ==
    IF mod0 # <<>>
    THEN LET mod == lower(strip(mod0))
         IN  IF startswith(mod, S_frueh) \/ mod = S_early THEN S_early
             ELSE IF startswith(mod, S_spaet) \/ mod = S_late THEN S_late
             ELSE mod
    ELSE <<>>

_podFromMatch(pod, mod) == modTag(mod) \o podTag(pod)

pod_hours ==
    (S_early \o S_morning :> <<0, 6>>) @@
    (S_morning :> <<5, 8>>) @@
    (S_late \o S_morning :> <<8, 10>>) @@
    (S_early \o S_beforenoon :> <<8, 11>>) @@
    (S_beforenoon :> <<9, 12>>) @@
    (S_late \o S_beforenoon :> <<10, 13>>) @@
    (S_early \o S_noon :> <<11, 13>>) @@
    (S_noon :> <<12, 14>>) @@
    (S_late \o S_noon :> <<13, 15>>) @@
    (S_early \o S_afternoon :> <<13, 15>>) @@
    (S_afternoon :> <<14, 16>>) @@
    (S_late \o S_afternoon :> <<15, 17>>) @@
    (S_early \o S_evening :> <<16, 18>>) @@
    (S_evening :> <<17, 19>>) @@
    (S_late \o S_evening :> <<18, 20>>) @@
    (S_early \o S_night :> <<18, 20>>) @@
    (S_night :> <<19, 22>>) @@
    (S_late \o S_night :> <<20, 23>>)

(***************************************************************************)
(* The entities.  Time() has every field unset; Interval holds two Times   *)
(* or NoEntity for an open side.  NoEntity is also a builder's None, and   *)
(* Raised the result of a builder that raises.                             *)
(***************************************************************************)
Time ==
    [kind |-> "Time", year |-> None, month |-> None, day |-> None,
     hour |-> None, minute |-> None, DOW |-> None, POD |-> <<>>]

NoEntity == [kind |-> "None"]

Raised == [kind |-> "Raised"]

Interval(f, t) == [kind |-> "Interval", t_from |-> f, t_to |-> t]

\* Time(year=dm.year, month=dm.month, day=dm.day)
TimeYMD(dm) == [Time EXCEPT !.year = dm.year, !.month = dm.month, !.day = dm.day]

\* Time(year=..., month=..., day=..., hour=dm.hour, minute=dm.minute)
TimeYMDHM(dm) ==
    [Time EXCEPT !.year = dm.year, !.month = dm.month, !.day = dm.day,
                 !.hour = dm.hour, !.minute = dm.minute]

IsTime(e) == e.kind = "Time"

\* Time.intersect(a, b, exclude): field `exclude` from a, the others from a when
\* set and else from b
intersect(a, b, exclude) ==
    LET pick(f) == IF f = exclude \/ a[f] # None THEN a[f] ELSE b[f]
    IN  [kind |-> "Time",
         year |-> pick("year"), month |-> pick("month"), day |-> pick("day"),
         hour |-> pick("hour"), minute |-> pick("minute"), DOW |-> pick("DOW"),
         POD |-> IF "POD" = exclude \/ a.POD # <<>> THEN a.POD ELSE b.POD]

\* the predicates, evaluated from field presence
hasDOW(e) == IsTime(e) /\ e.DOW # None

isDate(e) == IsTime(e) /\ e.year # None /\ e.month # None /\ e.day # None

isDOM(e) == IsTime(e) /\ e.day # None /\ ~isDate(e)

isDOY(e) == IsTime(e) /\ e.day # None /\ e.month # None /\ e.year = None

isTOD(e) ==
    IsTime(e) /\ e.hour # None /\ e.year = None /\ e.month = None /\ e.day = None

isPOD(e) ==
    /\ IsTime(e)
    /\ e.POD # <<>>
    /\ e.year = None /\ e.month = None /\ e.day = None
    /\ e.hour = None /\ e.minute = None /\ e.DOW = None

isTimeInterval(e) == e.kind = "Interval" /\ isTOD(e.t_from) /\ isTOD(e.t_to)

(***************************************************************************)
(* The rule builders.                                                      *)
(***************************************************************************)
\* _buildWeekDay(day_num, m); pod is m.match.group('pod'), <<>> when unmatched
_buildWeekDay(day_num, pod) ==
    [Time EXCEPT !.DOW = day_num,
                 !.POD = IF pod # <<>> THEN _podFromMatch(pod, <<>>) ELSE <<>>]

\* ruleDOM1 / ruleDOM2
ruleDOM(d) == [Time EXCEPT !.day = d]

\* mutant: "next" read as the first such weekday after ts (days=1 for weeks=1)
ruleNextDOW_NextDay(t, dow) ==
    LET dm == RAdd(t, [relativedelta EXCEPT !.weekday = dow.DOW, !.days = 1])
    IN  intersect(TimeYMD(dm), dow, "DOW")

ruleNextDOW(t, dow) ==
    LET dm == RAdd(t, [relativedelta EXCEPT !.weekday = dow.DOW, !.days = 7])
    IN  intersect(TimeYMD(dm), dow, "DOW")

\* mutant: the search starts on the day after ts
ruleDOWDOM_AfterTs(t, dow, dom) ==
    LET dm == rrule(AddDays(t, 1), dow.DOW, dom.day)
    IN  intersect(TimeYMD(dm), dow, "DOW")

ruleDOWDOM(t, dow, dom) ==
    LET dm == rrule(t, dow.DOW, dom.day)
    IN  intersect(TimeYMD(dm), dow, "DOW")

ruleLatentDOM(t, dom) ==
    LET dm0 == RAdd(t, [relativedelta EXCEPT !.day = dom.day])
        dm  == IF DtLE(dm0, t) THEN RAdd(dm0, [relativedelta EXCEPT !.months = 1])
               ELSE dm0
    IN  TimeYMD(dm)

\* mutant: no roll-forward when the weekday is ts's own
ruleLatentDOW_NoRoll(t, dow) ==
    LET dm == RAdd(t, [relativedelta EXCEPT !.weekday = dow.DOW])
    IN  intersect(TimeYMD(dm), dow, "DOW")

ruleLatentDOW(t, dow) ==
    LET dm0 == RAdd(t, [relativedelta EXCEPT !.weekday = dow.DOW])
        dm  == IF DtLE(dm0, t) THEN AddDays(dm0, 7) ELSE dm0
    IN  intersect(TimeYMD(dm), dow, "DOW")

\* ruleDDMM: Time(month=..., day=...)
ruleDDMM(d, mo) == [Time EXCEPT !.month = mo, !.day = d]

\* rulePOD; mod is m.match.group('mod'), <<>> when unmatched
rulePOD(pod, mod) == [Time EXCEPT !.POD = _podFromMatch(pod, mod)]

\* the `x or 0` of the source
OrZero(x) == IF x = None THEN 0 ELSE x

\* ruleHHMM; minute and ampm are the match groups, None and <<>> when unmatched
ruleHHMM(hour, minute, ampm) ==
    LET t == [Time EXCEPT !.hour = hour, !.minute = OrZero(minute)]
    IN  IF ampm = <<>> THEN t
        ELSE IF startswith(ampm, <<"a">>) /\ t.hour <= 12 THEN t
        ELSE IF startswith(ampm, <<"p">>) /\ t.hour <= 12
             THEN [Time EXCEPT !.hour = t.hour + 12, !.minute = t.minute]
        ELSE t

ruleHHOClock(hour) == [Time EXCEPT !.hour = hour]

\* mutant: the comparison is strict, an equal instant is not rolled forward
ruleLatentTOD_Strict(t, tod) ==
    IF tod.hour > 23 THEN Raised
    ELSE LET dm0 == RAdd(t, [relativedelta EXCEPT !.hour = tod.hour,
                                                  !.minute = OrZero(tod.minute)])
             dm  == IF DtLE(dm0, t) /\ dm0 # t THEN AddDays(dm0, 1) ELSE dm0
         IN  TimeYMDHM(dm)

\* datetime.replace(hour=24) raises ValueError
ruleLatentTOD(t, tod) ==
    IF tod.hour > 23 THEN Raised
    ELSE LET dm0 == RAdd(t, [relativedelta EXCEPT !.hour = tod.hour,
                                                  !.minute = OrZero(tod.minute)])
             dm  == IF DtLE(dm0, t) THEN AddDays(dm0, 1) ELSE dm0
         IN  TimeYMDHM(dm)

ruleLatentDOY(t, doy) ==
    LET dm0 == RAdd(t, [relativedelta EXCEPT !.month = doy.month, !.day = doy.day])
        dm  == IF DtLE(dm0, t) THEN RAdd(dm0, [relativedelta EXCEPT !.years = 1])
               ELSE dm0
    IN  TimeYMD(dm)

ruleLatentTimeInterval(t, ti) ==
    IF ti.t_from.hour > 23 \/ ti.t_to.hour > 23 THEN Raised
    ELSE LET from0 == RAdd(t, [relativedelta EXCEPT !.hour = ti.t_from.hour,
                                                    !.minute = OrZero(ti.t_from.minute)])
             to0   == RAdd(t, [relativedelta EXCEPT !.hour = ti.t_to.hour,
                                                    !.minute = OrZero(ti.t_to.minute)])
             roll  == DtLE(from0, t)
             dm_from == IF roll THEN AddDays(from0, 1) ELSE from0
             dm_to   == IF roll THEN AddDays(to0, 1) ELSE to0
         IN  Interval(TimeYMDHM(dm_from), TimeYMDHM(dm_to))

\* mutant: the part of day is returned without a date
ruleLatentPOD_NoDate(t, pod) ==
    IF pod.POD \notin DOMAIN pod_hours THEN Raised
    ELSE [Time EXCEPT !.POD = pod.POD]

\* pod_hours[pod.POD] raises KeyError for a tag that is no key
ruleLatentPOD(t, pod) ==
    IF pod.POD \notin DOMAIN pod_hours THEN Raised
    ELSE LET h_from == pod_hours[pod.POD][1]
             t0     == RAdd(t, [relativedelta EXCEPT !.hour = h_from])
             t_from == IF DtLE(t0, t) THEN AddDays(t0, 1) ELSE t0
         IN  [TimeYMD(t_from) EXCEPT !.POD = pod.POD]

\* mutant: no combination is rejected
ruleTODPOD_NoReject(tod, pod) ==
    LET late == contains(pod.POD, S_afternoon) \/ contains(pod.POD, S_evening)
                    \/ contains(pod.POD, S_night)
    IN  [Time EXCEPT !.hour = IF tod.hour <= 12 /\ late THEN tod.hour + 12
                               ELSE tod.hour,
                     !.minute = tod.minute]

ruleTODPOD(tod, pod) ==
    IF tod.hour <= 12 /\ (contains(pod.POD, S_afternoon) \/ contains(pod.POD, S_evening)
                            \/ contains(pod.POD, S_night))
    THEN [Time EXCEPT !.hour = tod.hour + 12, !.minute = tod.minute]
    ELSE IF tod.hour > 12 /\ (contains(pod.POD, S_beforenoon)
                                \/ contains(pod.POD, S_morning))
    THEN NoEntity
    ELSE [Time EXCEPT !.hour = tod.hour, !.minute = tod.minute]

rulePODTOD(pod, tod) == ruleTODPOD(tod, pod)

ruleTODTOD(t1, t2) ==
    IF t1.hour > t2.hour THEN NoEntity
    ELSE IF t1.hour = t2.hour
            /\ \/ t1.minute # None /\ t2.minute # None /\ t1.minute >= t2.minute
               \/ t1.minute = None /\ t2.minute # None
               \/ t1.minute = None /\ t2.minute = None
    THEN NoEntity
    ELSE Interval(t1, t2)

(***************************************************************************)
(* The parse in progress.  A terminal rule shifts the entity it builds     *)
(* onto prod; a rule over entities replaces the productions it matched by  *)
(* its result, or leaves them when the builder returns None or raises.     *)
(* Only sequences that some rule's pattern accepts are formed.             *)
(***************************************************************************)
NoLast == [rule |-> "none", args |-> <<>>, out |-> NoEntity]

Matchable(seq) ==
    \/ Len(seq) = 1
    \/ /\ Len(seq) = 2
       /\ \/ hasDOW(seq[1]) /\ isDOM(seq[2])
          \/ isTOD(seq[1]) /\ isPOD(seq[2])
          \/ isPOD(seq[1]) /\ isTOD(seq[2])
          \/ isTOD(seq[1]) /\ isTOD(seq[2])

Shift(rule, args, e) ==
    /\ Len(prod) < 2
    /\ Matchable(Append(prod, e))
    /\ prod' = Append(prod, e)
    /\ last' = [rule |-> rule, args |-> args, out |-> e]
    /\ UNCHANGED <<ts, nb, scored>>

Reduce(rule, args, out) ==
    /\ prod' = IF IsTime(out) \/ out.kind = "Interval" THEN <<out>> ELSE prod
    /\ last' = [rule |-> rule, args |-> args, out |-> out]
    /\ UNCHANGED <<ts, nb, scored>>

\* the engine turns to another span of the text
Reset ==
    /\ prod # <<>>
    /\ prod' = <<>>
    /\ last' = NoLast
    /\ UNCHANGED <<ts, nb, scored>>

(***************************************************************************)
(* Bounds of the date rules' check: the reference instants are the         *)
(* TsDays days from 2023-12-25 on (a year's end, the end of January, a     *)
(* leap February) and 2022-03-10, each at midnight and at 12:43:07.        *)
(***************************************************************************)
TsDays == 70

TsFirst == datetime(2023, 12, 25, 0, 0, 0)

\* the reference instant of the documented scenarios, a Thursday
TsScenario == datetime(2022, 3, 10, 0, 0, 0)

TsClocks == {<<0, 0, 0>>, <<12, 43, 7>>}

AtClock(dt, c) == [dt EXCEPT !.hour = c[1], !.minute = c[2], !.second = c[3]]

TsDateSet ==
    {AtClock(AddDays(TsFirst, n), c) : n \in 0..(TsDays - 1), c \in TsClocks}
        \cup {AtClock(TsScenario, c) : c \in TsClocks}

\* m.match.group('pod') of the weekday rules: unmatched, or one of these
W_nachts == <<"n", "a", "c", "h", "t", "s">>

DowPods == {<<>>, W_nachts}

Days == 1..31

\* P: the texts of the pod group that are tried
DOWRule(P) ==
    \E day_num \in 0..6, pod \in P :
        Shift("ruleDOW", <<day_num, pod>>, _buildWeekDay(day_num, pod))

DOMRule == \E d \in Days : Shift("ruleDOM1", <<d>>, ruleDOM(d))

NextDOWRule ==
    /\ Len(prod) = 1 /\ hasDOW(prod[1])
    /\ Reduce("ruleNextDOW", prod, ruleNextDOW(ts, prod[1]))

DOWDOMRule ==
    /\ Len(prod) = 2 /\ hasDOW(prod[1]) /\ isDOM(prod[2])
    /\ Reduce("ruleDOWDOM", prod, ruleDOWDOM(ts, prod[1], prod[2]))

LatentDOMRule ==
    /\ Len(prod) = 1 /\ isDOM(prod[1])
    /\ Reduce("ruleLatentDOM", prod, ruleLatentDOM(ts, prod[1]))

LatentDOWRule ==
    /\ Len(prod) = 1 /\ hasDOW(prod[1])
    /\ Reduce("ruleLatentDOW", prod, ruleLatentDOW(ts, prod[1]))

InitDate ==
    /\ ts \in TsDateSet
    /\ prod = <<>>
    /\ last = NoLast
    /\ nb = <<>>
    /\ scored = <<>>

NextDate ==
    \/ DOWRule(DowPods)
    \/ DOMRule
    \/ NextDOWRule
    \/ DOWDOMRule
    \/ LatentDOMRule
    \/ LatentDOWRule
    \/ Reset

SpecDate == InitDate /\ [][NextDate]_vars

(***************************************************************************)
(* Properties of the date rules, checked under SpecDate.                   *)
(***************************************************************************)
Fired(rule) == last.rule = rule

\* last.out is an existing calendar date
OutIsDate ==
    /\ isDate(last.out)
    /\ last.out.month \in 1..12
    /\ last.out.day \in 1..monthrange(last.out.year, last.out.month)

\* no day of month d on weekday w (any weekday when w = None) lies in the days
\* lo..hi-1
NoDayBetween(lo, hi, d, w) ==
    \A y \in fromordinal(lo).year..fromordinal(hi).year, m \in 1..12 :
        LET c == [year |-> y, month |-> m, day |-> d]
        IN  (d <= monthrange(y, m) /\ lo <= toordinal(c) /\ toordinal(c) < hi)
                => (w # None /\ weekday(c) # w)

\* C1 as stated: ruleNextDOW returns the first calendar date strictly after ts's
\* date whose weekday equals dow.DOW (2022-03-14 for ts = 2022-03-10 and Monday).
C1_NextDOWFirstAfterTs ==
    Fired("ruleNextDOW") =>
        /\ OutIsDate
        /\ weekday(last.out) = last.args[1].DOW
        /\ toordinal(last.out) \in (toordinal(ts) + 1)..(toordinal(ts) + 7)

\* C1 amended: ruleNextDOW returns the first calendar date at or after ts's date
\* plus 7 days whose weekday equals dow.DOW, that is 7 to 13 days after ts's date
\* (2022-03-21 for ts = 2022-03-10 and Monday).
C1_NextDOWWeekLater ==
    Fired("ruleNextDOW") =>
        /\ OutIsDate
        /\ weekday(last.out) = last.args[1].DOW
        /\ toordinal(last.out) \in (toordinal(ts) + 7)..(toordinal(ts) + 13)
        /\ (date(ts) = date(TsScenario) /\ last.args[1].DOW = 0
                => date(last.out) = [year |-> 2022, month |-> 3, day |-> 21])

C1_Witness ==
    /\ Fired("ruleNextDOW")
    /\ date(ts) = date(TsScenario)
    /\ last.args[1].DOW = 0
    /\ date(last.out) = [year |-> 2022, month |-> 3, day |-> 21]

\* C2: ruleLatentDOW grounds to a date on the weekday dow.DOW, not before ts's date
\* and at most 7 days after it, and exactly 7 days after it when ts's own weekday
\* is dow.DOW.
C2_LatentDOWNextWeekday ==
    Fired("ruleLatentDOW") =>
        /\ OutIsDate
        /\ weekday(last.out) = last.args[1].DOW
        /\ toordinal(last.out) \in toordinal(ts)..(toordinal(ts) + 7)
        /\ (weekday(ts) = last.args[1].DOW
                => toordinal(last.out) = toordinal(ts) + 7)

C2_Witness ==
    /\ Fired("ruleLatentDOW")
    /\ weekday(ts) = last.args[1].DOW
    /\ toordinal(last.out) = toordinal(ts) + 7
    /\ last.out.month # ts.month

\* C3 as stated: ruleLatentDOM grounds to the next occurrence of day-of-month d:
\* the day field is d, the date lies in ts's month when d is later than ts's day
\* and in a later month otherwise, and no earlier date after ts has day-of-month d.
C3_LatentDOMNextOccurrence ==
    Fired("ruleLatentDOM") =>
        LET d == last.args[1].day
        IN  /\ OutIsDate
            /\ last.out.day = d
            /\ toordinal(last.out) > toordinal(ts)
            /\ (d > ts.day /\ d <= monthrange(ts.year, ts.month)
                    => last.out.year = ts.year /\ last.out.month = ts.month)
            /\ NoDayBetween(toordinal(ts) + 1, toordinal(last.out), d, None)

\* C6: ruleDOWDOM returns the earliest date at or after ts's date whose day of
\* month is dom.day and whose weekday is dow.DOW; the result has no DOW and keeps
\* the weekday entity's POD.
C6_DOWDOMEarliest ==
    Fired("ruleDOWDOM") =>
        LET w == last.args[1].DOW
            d == last.args[2].day
        IN  /\ OutIsDate
            /\ last.out.day = d
            /\ weekday(last.out) = w
            /\ toordinal(last.out) >= toordinal(ts)
            /\ NoDayBetween(toordinal(ts), toordinal(last.out), d, w)
            /\ last.out.DOW = None
            /\ last.out.POD = last.args[1].POD

C6_Witness ==
    /\ Fired("ruleDOWDOM")
    /\ last.args[2].day = 31
    /\ last.args[1].POD # <<>>
    /\ last.out.POD = last.args[1].POD
    /\ toordinal(last.out) > toordinal(ts) + 365

C6_WitnessSameDay ==
    /\ Fired("ruleDOWDOM")
    /\ date(last.out) = date(ts)

(***************************************************************************)
(* The clock rules.  The hours are those of the registry's _hour pattern;  *)
(* the minutes are the multiples of MinuteStep among the _minute pattern's *)
(* 0..59, or unmatched.                                                    *)
(***************************************************************************)
MinuteStep == 30

Hours == 0..23

Minutes == {m \in 0..59 : m % MinuteStep = 0}

AmPm == {<<>>, <<"a", "m">>, <<"p", "m">>}

W_vormittags == <<"v", "o", "r", "m", "i", "t", "t", "a", "g", "s">>
W_nachmittags == <<"n", "a", "c", "h", "m", "i", "t", "t", "a", "g", "s">>
W_early == <<"e", "a", "r", "l", "y", " ">>
W_spaeter == <<"s", "p", "ae", "t", "e", "r", " ">>

\* m.match.group('pod') and m.match.group('mod') of rulePOD
PodWords == {S_morning, W_vormittags, S_noon, W_nachmittags, S_evening, S_night}

PodMods == {<<>>, W_early, W_spaeter}

HHMMRule(H) ==
    \E hour \in H, minute \in Minutes \cup {None}, ampm \in AmPm :
        Shift("ruleHHMM", <<hour, minute, ampm>>, ruleHHMM(hour, minute, ampm))

HHOClockRule(H) == \E hour \in H : Shift("ruleHHOClock", <<hour>>, ruleHHOClock(hour))

\* W, M: the texts of the pod and mod groups that are tried
PODRule(W, M) ==
    \E pod \in W, mod \in M :
        Shift("rulePOD", <<pod, mod>>, rulePOD(pod, mod))

DDMMRule ==
    \E d \in Days, mo \in 1..12 : Shift("ruleDDMM", <<d, mo>>, ruleDDMM(d, mo))

TODPODRule ==
    /\ Len(prod) = 2 /\ isTOD(prod[1]) /\ isPOD(prod[2])
    /\ Reduce("ruleTODPOD", prod, ruleTODPOD(prod[1], prod[2]))

PODTODRule ==
    /\ Len(prod) = 2 /\ isPOD(prod[1]) /\ isTOD(prod[2])
    /\ Reduce("rulePODTOD", prod, rulePODTOD(prod[1], prod[2]))

TODTODRule ==
    /\ Len(prod) = 2 /\ isTOD(prod[1]) /\ isTOD(prod[2])
    /\ Reduce("ruleTODTOD", prod, ruleTODTOD(prod[1], prod[2]))

LatentDOYRule ==
    /\ Len(prod) = 1 /\ isDOY(prod[1])
    /\ Reduce("ruleLatentDOY", prod, ruleLatentDOY(ts, prod[1]))

LatentTODRule ==
    /\ Len(prod) = 1 /\ isTOD(prod[1])
    /\ Reduce("ruleLatentTOD", prod, ruleLatentTOD(ts, prod[1]))

LatentTimeIntervalRule ==
    /\ Len(prod) = 1 /\ isTimeInterval(prod[1])
    /\ Reduce("ruleLatentTimeInterval", prod, ruleLatentTimeInterval(ts, prod[1]))

LatentPODRule ==
    /\ Len(prod) = 1 /\ isPOD(prod[1])
    /\ Reduce("ruleLatentPOD", prod, ruleLatentPOD(ts, prod[1]))

(***************************************************************************)
(* SpecTOD: a time of day and its grounding, for reference instants at the *)
(* end of a year, of a leap February and of a 30-day month, at the hours   *)
(* TsHours, every minute of Minutes and the seconds 0 and 30.              *)
(***************************************************************************)
TsHours == {0, 11, 12, 23}

TsEnds ==
    {datetime(2023, 12, 31, 0, 0, 0), datetime(2024, 2, 28, 0, 0, 0),
     datetime(2024, 4, 30, 0, 0, 0)}

TsClockSet ==
    {AtClock(d, <<h, m, sec>>) : d \in TsEnds, h \in TsHours, m \in Minutes,
                                 sec \in {0, 30}}

InitTOD ==
    /\ ts \in TsClockSet
    /\ prod = <<>>
    /\ last = NoLast
    /\ nb = <<>>
    /\ scored = <<>>

\* only rules over a single production are registered: no second one is shifted
NextTOD ==
    \/ prod = <<>> /\ HHMMRule(Hours)
    \/ prod = <<>> /\ HHOClockRule(Hours)
    \/ LatentTODRule
    \/ Reset

SpecTOD == InitTOD /\ [][NextTOD]_vars

(***************************************************************************)
(* SpecClock: the rules that combine times of day and parts of day; they   *)
(* do not read ts.                                                         *)
(***************************************************************************)
InitClock ==
    /\ ts = TsScenario
    /\ prod = <<>>
    /\ last = NoLast
    /\ nb = <<>>
    /\ scored = <<>>

NextClock ==
    \/ HHMMRule(Hours)
    \/ HHOClockRule(Hours)
    \/ PODRule(PodWords, PodMods)
    \/ TODPODRule
    \/ PODTODRule
    \/ TODTODRule
    \/ Reset

SpecClock == InitClock /\ [][NextClock]_vars

(***************************************************************************)
(* SpecLatent: every latent rule, with the rules that build its inputs.    *)
(***************************************************************************)
\* the hours matched in this check: midnight, noon (24 with "pm"), 13 and 23
LatentHours == {0, 12, 13, 23}

TsLatentSet ==
    {datetime(2022, 3, 10, 12, 30, 0), datetime(2024, 2, 29, 0, 0, 0),
     datetime(2023, 12, 31, 23, 30, 30)}

InitLatent ==
    /\ ts \in TsLatentSet
    /\ prod = <<>>
    /\ last = NoLast
    /\ nb = <<>>
    /\ scored = <<>>

NextLatent ==
    \/ DOWRule(DowPods)
    \/ DOMRule
    \/ DDMMRule
    \/ HHMMRule(LatentHours)
    \/ HHOClockRule(LatentHours)
    \/ PODRule(PodWords, PodMods)
    \/ TODTODRule
    \/ LatentDOMRule
    \/ LatentDOWRule
    \/ LatentDOYRule
    \/ LatentTODRule
    \/ LatentTimeIntervalRule
    \/ LatentPODRule
    \/ Reset

SpecLatent == InitLatent /\ [][NextLatent]_vars

(***************************************************************************)
(* Properties of the grounding of a time of day, checked under SpecTOD.    *)
(***************************************************************************)
\* C4: ruleLatentTOD keeps hour and minute (0 when unset) and dates the result on
\* ts's own day when that wall-clock time is strictly later than ts, and on the
\* day after ts otherwise, also when the wall-clock time equals ts exactly.
C4_LatentTODNextOccurrence ==
    (Fired("ruleLatentTOD") /\ last.args[1].hour \in 0..23) =>
        LET tod   == last.args[1]
            m     == IF tod.minute = None THEN 0 ELSE tod.minute
            later == (tod.hour * 60 + m) * 60 > SecondOfDay(ts)
        IN  /\ OutIsDate
            /\ last.out.hour = tod.hour
            /\ last.out.minute = m
            /\ toordinal(last.out) = toordinal(ts) + (IF later THEN 0 ELSE 1)

C4_Witness ==
    /\ Fired("ruleLatentTOD")
    /\ last.args[1].hour = ts.hour
    /\ last.args[1].minute = None
    /\ ts.minute = 0 /\ ts.second = 0
    /\ toordinal(last.out) = toordinal(ts) + 1
    /\ last.out.month # ts.month

(***************************************************************************)
(* Properties of the clock rules, checked under SpecClock.                 *)
(***************************************************************************)
TodPodFired == Fired("ruleTODPOD") \/ Fired("rulePODTOD")

\* the time of day and the part of day ruleTODPOD / rulePODTOD was applied to
LastTod == IF Fired("ruleTODPOD") THEN last.args[1] ELSE last.args[2]

LastPod == IF Fired("ruleTODPOD") THEN last.args[2] ELSE last.args[1]

LateTag(pod) == contains(pod.POD, S_afternoon) \/ contains(pod.POD, S_evening)

EarlyTag(pod) == contains(pod.POD, S_beforenoon) \/ contains(pod.POD, S_morning)

\* C5 as stated: ruleTODPOD, and rulePODTOD which delegates to it, return None
\* when the part of day is an afternoon/evening tag and the hour is greater
\* than 12.
C5_RejectsLateTagAfterNoon ==
    (TodPodFired /\ LateTag(LastPod) /\ LastTod.hour > 12) => last.out = NoEntity

\* C5 amended: ruleTODPOD, and rulePODTOD which delegates to it, return None
\* exactly when the part of day is a morning/beforenoon tag and the hour is
\* greater than 12; with an afternoon/evening tag and an hour greater than 12
\* they return a Time with the hour unchanged.
C5_RejectsEarlyTagAfterNoon ==
    TodPodFired =>
        /\ last.out = NoEntity <=> (EarlyTag(LastPod) /\ LastTod.hour > 12)
        /\ (LateTag(LastPod) /\ LastTod.hour > 12)
                => (IsTime(last.out) /\ last.out.hour = LastTod.hour)

C5_Witness ==
    /\ Fired("rulePODTOD")
    /\ EarlyTag(LastPod)
    /\ LastTod.hour > 12
    /\ last.out = NoEntity
    /\ Len(prod) = 2

\* the wall-clock minute of the day, an unset minute counting as 0
WallClock(t) == t.hour * 60 + (IF t.minute = None THEN 0 ELSE t.minute)

\* C9 as stated: ruleTODTOD returns an Interval exactly when t1 is strictly
\* earlier than t2 as a wall-clock time, and None otherwise ("6:30 - 6" is
\* rejected, "6 - 6:30" accepted).
C9_TODTODOrdered ==
    (Fired("ruleTODTOD") /\ last.args[1].hour \in 0..23 /\ last.args[2].hour \in 0..23) =>
        /\ last.out.kind \in {"Interval", "None"}
        /\ last.out.kind = "Interval" <=> WallClock(last.args[1]) < WallClock(last.args[2])

\* C10 as stated: every Time produced by ruleHHMM or by ruleTODPOD / rulePODTOD
\* from a matched hour in 0..23 has its hour in 0..23 (never 24).
C10_HourInRange ==
    /\ Fired("ruleHHMM") => last.out.hour \in 0..23
    /\ (TodPodFired /\ LastTod.hour \in 0..23 /\ IsTime(last.out))
            => last.out.hour \in 0..23

(***************************************************************************)
(* Idempotence of the grounding, checked under SpecLatent.                 *)
(***************************************************************************)
LatentRules ==
    {"ruleLatentDOM", "ruleLatentDOW", "ruleLatentDOY", "ruleLatentTOD",
     "ruleLatentTimeInterval", "ruleLatentPOD"}

LatentStep ==
    \/ LatentDOMRule
    \/ LatentDOWRule
    \/ LatentDOYRule
    \/ LatentTODRule
    \/ LatentTimeIntervalRule
    \/ LatentPODRule

\* C7: the result of a latent rule satisfies none of the latent predicates, so no
\* latent rule applies to it again and a second grounding leaves it unchanged.
C7_GroundingIdempotent ==
    (last.rule \in LatentRules /\ last.out # Raised) =>
        /\ prod = <<last.out>>
        /\ ~isDOM(last.out) /\ ~hasDOW(last.out) /\ ~isDOY(last.out)
        /\ ~isTOD(last.out) /\ ~isPOD(last.out) /\ ~isTimeInterval(last.out)
        /\ ~ENABLED LatentStep

C7_Witness ==
    /\ Fired("ruleLatentPOD")
    /\ isDate(last.out)
    /\ last.out.POD = last.args[1].POD
    /\ last.out.day # ts.day

C7_WitnessInterval ==
    /\ Fired("ruleLatentTimeInterval")
    /\ last.out.kind = "Interval"
    /\ isDate(last.out.t_from) /\ isDate(last.out.t_to)

(***************************************************************************)
(* NaiveBayesScorer.  The trained model nb maps a feature sequence to the  *)
(* pair predict_log_proba returns, <<log P(-1), log P(+1)>>.  Scores are   *)
(* fixed-point numbers: math.log(c / n) is 8 * log2(c / n) cut to an       *)
(* integer, which orders the ratios as the real logarithm does.            *)
(***************************************************************************)
RECURSIVE ilog2(_)
ilog2(x) == IF x < 2 THEN 0 ELSE 1 + ilog2(x \div 2)

pow8(x) == x * x * x * x * x * x * x * x

\* math.log(c / n)
mathlog(c, n) == ilog2(pow8(c)) - ilog2(pow8(n))

Digits == <<"0", "1", "2", "3", "4", "5", "6", "7", "8", "9">>

\* str(r) of a rule identifier 0..9
str(r) == <<Digits[r + 1]>>

\* _feature_extractor(txt, ts, partial_parse)
_feature_extractor(txt, t, partial_parse) ==
    [i \in 1..Len(partial_parse.rules) |-> str(partial_parse.rules[i])]

\* float(pred[:, 1] - pred[:, 0])
model_score(model, X) == model[X][2] - model[X][1]

\* mutant: the length term is subtracted
score_Penalised(model, txt, t, partial_parse) ==
    LET max_covered_chars ==
            partial_parse.prod[Len(partial_parse.prod)].mend - partial_parse.prod[1].mstart
        len_score == mathlog(max_covered_chars, Len(txt))
        X == _feature_extractor(txt, t, partial_parse)
    IN  model_score(model, X) - len_score

\* NaiveBayesScorer.score
score(model, txt, t, partial_parse) ==
    LET max_covered_chars ==
            partial_parse.prod[Len(partial_parse.prod)].mend - partial_parse.prod[1].mstart
        len_score == mathlog(max_covered_chars, Len(txt))
        X == _feature_extractor(txt, t, partial_parse)
    IN  model_score(model, X) + len_score

\* NaiveBayesScorer.score_final; prodlen is len(prod)
score_final(model, txt, t, partial_parse, prodlen) ==
    LET len_score == mathlog(prodlen, Len(txt))
        X == _feature_extractor(txt, t, partial_parse)
    IN  model_score(model, X) + len_score

(***************************************************************************)
(* SpecScore: a scorer is built from a model, and partial parses of texts  *)
(* of up to MaxTxt characters are scored; scored holds the last two        *)
(* scorings.                                                               *)
(***************************************************************************)
MaxTxt == 4

Text(n) == [i \in 1..n |-> "x"]

\* partial_parse.rules of the parses scored
RuleSeqs == {<<3>>, <<3, 7>>}

Features == {[i \in 1..Len(r) |-> str(r[i])] : r \in RuleSeqs}

LogProbas == {<<-1, -4>>, <<-4, -1>>}

\* productions over the text: one, or two in text order that do not overlap
Spans(n) == {[mstart |-> a, mend |-> b] : a \in 0..(n - 1), b \in 1..n}

Prods(n) ==
    {<<p>> : p \in {q \in Spans(n) : q.mstart < q.mend}}
        \cup {<<p, q>> : p \in {x \in Spans(n) : x.mstart < x.mend},
                         q \in {x \in Spans(n) : x.mstart < x.mend}}

WellFormed(ps) == IF Len(ps) = 1 THEN TRUE ELSE ps[1].mend <= ps[2].mstart

Record(entry) == IF Len(scored) = 2 THEN <<scored[2], entry>> ELSE Append(scored, entry)

ScoreStep ==
    \E n \in 1..MaxTxt, rules \in RuleSeqs : \E ps \in Prods(n) :
        /\ WellFormed(ps)
        /\ LET pp == [prod |-> ps, rules |-> rules]
           IN  scored' = Record([fn |-> "score", txt |-> Text(n), rules |-> rules,
                                 covered |-> ps[Len(ps)].mend - ps[1].mstart,
                                 model_score |-> model_score(nb, _feature_extractor(Text(n), ts, pp)),
                                 score |-> score(nb, Text(n), ts, pp)])
        /\ UNCHANGED <<ts, prod, last, nb>>

ScoreFinalStep ==
    \E n \in 1..MaxTxt, rules \in RuleSeqs : \E prodlen \in 1..n :
        /\ LET pp == [prod |-> <<[mstart |-> 0, mend |-> prodlen]>>, rules |-> rules]
           IN  scored' = Record([fn |-> "score_final", txt |-> Text(n), rules |-> rules,
                                 covered |-> prodlen,
                                 model_score |-> model_score(nb, _feature_extractor(Text(n), ts, pp)),
                                 score |-> score_final(nb, Text(n), ts, pp, prodlen)])
        /\ UNCHANGED <<ts, prod, last, nb>>

InitScore ==
    /\ ts = TsScenario
    /\ prod = <<>>
    /\ last = NoLast
    /\ nb \in [Features -> LogProbas]
    /\ scored = <<>>

NextScore ==
    \/ ScoreStep
    \/ ScoreFinalStep

SpecScore == InitScore /\ [][NextScore]_vars

\* C8: of two scorings by the same method of the same text with the same rule
\* sequence, the one that covers no more characters scores no higher, the
\* model's log-odds term being the same in both.
C8_ScoreMonotoneInCoverage ==
    (/\ Len(scored) = 2
     /\ scored[1].fn = scored[2].fn
     /\ scored[1].txt = scored[2].txt
     /\ scored[1].rules = scored[2].rules
     /\ scored[1].covered <= scored[2].covered) =>
        /\ scored[1].model_score = scored[2].model_score
        /\ scored[1].score <= scored[2].score

C8_Witness ==
    /\ Len(scored) = 2
    /\ scored[1].fn = "score" /\ scored[2].fn = "score"
    /\ scored[1].txt = scored[2].txt
    /\ scored[1].rules = scored[2].rules
    /\ scored[1].covered < scored[2].covered
    /\ scored[1].score < scored[2].score
    /\ scored[2].model_score < 0

(***************************************************************************)
(* The rules that read a year.  m.match.group('year') is the matched       *)
(* text, a string of decimal digits; the shared year pattern accepts two   *)
(* digits, or four digits from 1900 to 2099.                               *)
(***************************************************************************)
DigitValue(c) == CHOOSE v \in 0..9 : Digits[v + 1] = c

\* int(s) of a string of decimal digits
RECURSIVE int(_)
int(s) ==
    IF s = <<>> THEN 0
    ELSE 10 * int(SubSeq(s, 1, Len(s) - 1)) + DigitValue(s[Len(s)])

\* ruleYear; year is m.match.group('year')
ruleYear(year) ==
    LET y == int(year)
    IN  [Time EXCEPT !.year = IF y < 1900 THEN y + 2000 ELSE y]

\* ruleDDMMYYYY; d and mo are the converted day and month groups, as in
\* ruleDDMM, year is m.match.group('year')
ruleDDMMYYYY(d, mo, year) ==
    LET y == int(year)
    IN  [Time EXCEPT !.year = IF y < 2000 THEN y + 2000 ELSE y,
                     !.month = mo, !.day = d]

DigitChars == {Digits[i] : i \in 1..10}

\* the texts the year pattern matches
YearWords ==
    {<<a, b>> : a \in DigitChars, b \in DigitChars}
        \cup {<<"1", "9", a, b>> : a \in DigitChars, b \in DigitChars}
        \cup {<<"2", "0", a, b>> : a \in DigitChars, b \in DigitChars}

YearRule == \E year \in YearWords : Shift("ruleYear", <<year>>, ruleYear(year))

DDMMYYYYRule ==
    \E d \in Days, mo \in 1..12, year \in YearWords :
        Shift("ruleDDMMYYYY", <<d, mo, year>>, ruleDDMMYYYY(d, mo, year))

(***************************************************************************)
(* SpecYear: the two terminal rules that normalise a year; they do not     *)
(* read ts.                                                                *)
(***************************************************************************)
InitYear ==
    /\ ts = TsScenario
    /\ prod = <<>>
    /\ last = NoLast
    /\ nb = <<>>
    /\ scored = <<>>

\* neither rule's result is matched by a rule over two productions here
NextYear ==
    \/ prod = <<>> /\ YearRule
    \/ prod = <<>> /\ DDMMYYYYRule
    \/ Reset

SpecYear == InitYear /\ [][NextYear]_vars

\* the year text of the last application of ruleYear or ruleDDMMYYYY
LastYearWord == last.args[Len(last.args)]

\* C11: whenever ruleYear or ruleDDMMYYYY has been applied to a year text, the
\* Time it built has year y + 2000 for a two-digit y and y itself for a
\* four-digit y, and the other builder gives the same year for that text.
C11_YearNormalisationConsistent ==
    (Fired("ruleYear") \/ Fired("ruleDDMMYYYY")) =>
        /\ last.out.year = IF Len(LastYearWord) = 2
                           THEN int(LastYearWord) + 2000
                           ELSE int(LastYearWord)
        /\ ruleYear(LastYearWord).year = ruleDDMMYYYY(1, 1, LastYearWord).year

(***************************************************************************)
(* The texts that rulePOD's and the weekday rules' patterns put into the   *)
(* groups `pod` and `mod` (the patterns ignore case), as _podFromMatch     *)
(* receives them.                                                          *)
(***************************************************************************)
\* morning|morgend?s?|(in der )?fr"uhe?|sp"at|early|late|(after\s*)?noon|
\* (vor\s?|nach\s?)?mittags?|evening|abends?|night|nachts?
PodTexts ==
    {<<"m", "o", "r", "n", "i", "n", "g">>,
     <<"M", "o", "r", "n", "i", "n", "g">>,
     <<"m", "o", "r", "g", "e", "n">>,
     <<"m", "o", "r", "g", "e", "n", "s">>,
     <<"M", "o", "r", "g", "e", "n", "s">>,
     <<"m", "o", "r", "g", "e", "n", "d">>,
     <<"m", "o", "r", "g", "e", "n", "d", "s">>,
     <<"f", "r", "ue", "h">>,
     <<"f", "r", "ue", "h", "e">>,
     <<"i", "n", " ", "d", "e", "r", " ", "f", "r", "ue", "h">>,
     <<"i", "n", " ", "d", "e", "r", " ", "f", "r", "ue", "h", "e">>,
     <<"s", "p", "ae", "t">>,
     <<"e", "a", "r", "l", "y">>,
     <<"l", "a", "t", "e">>,
     <<"n", "o", "o", "n">>,
     <<"a", "f", "t", "e", "r", "n", "o", "o", "n">>,
     <<"a", "f", "t", "e", "r", " ", "n", "o", "o", "n">>,
     <<"A", "f", "t", "e", "r", "n", "o", "o", "n">>,
     <<"m", "i", "t", "t", "a", "g">>,
     <<"m", "i", "t", "t", "a", "g", "s">>,
     <<"M", "i", "t", "t", "a", "g", "s">>,
     <<"v", "o", "r", "m", "i", "t", "t", "a", "g">>,
     <<"v", "o", "r", "m", "i", "t", "t", "a", "g", "s">>,
     <<"v", "o", "r", " ", "m", "i", "t", "t", "a", "g">>,
     <<"V", "o", "r", "m", "i", "t", "t", "a", "g", "s">>,
     <<"n", "a", "c", "h", "m", "i", "t", "t", "a", "g">>,
     <<"n", "a", "c", "h", "m", "i", "t", "t", "a", "g", "s">>,
     <<"n", "a", "c", "h", " ", "m", "i", "t", "t", "a", "g">>,
     <<"N", "a", "c", "h", "m", "i", "t", "t", "a", "g", "s">>,
     <<"e", "v", "e", "n", "i", "n", "g">>,
     <<"E", "v", "e", "n", "i", "n", "g">>,
     <<"a", "b", "e", "n", "d">>,
     <<"a", "b", "e", "n", "d", "s">>,
     <<"A", "b", "e", "n", "d", "s">>,
     <<"n", "i", "g", "h", "t">>,
     <<"N", "i", "g", "h", "t">>,
     <<"n", "a", "c", "h", "t">>,
     <<"n", "a", "c", "h", "t", "s">>,
     <<"N", "a", "c", "h", "t", "s">>}

\* (fr"uh(er)?|sp"at(er)?|early|late)\s*, or unmatched
ModTexts ==
    {<<>>,
     <<"f", "r", "ue", "h">>,
     <<"f", "r", "ue", "h", " ">>,
     <<"f", "r", "ue", "h", "e", "r", " ">>,
     <<"s", "p", "ae", "t", " ">>,
     <<"s", "p", "ae", "t", "e", "r", " ">>,
     <<"e", "a", "r", "l", "y">>,
     <<"e", "a", "r", "l", "y", " ">>,
     <<"E", "a", "r", "l", "y", " ">>,
     <<"l", "a", "t", "e", " ">>}

\* the pod group of the weekday rules, or unmatched
DowPodTexts ==
    {<<>>,
     <<"m", "o", "r", "n", "i", "n", "g">>,
     <<"m", "o", "r", "g", "e", "n">>,
     <<"m", "o", "r", "g", "e", "n", "s">>,
     <<"m", "o", "r", "g", "e", "n", "d", "s">>,
     <<"f", "r", "ue", "h">>,
     <<"n", "o", "o", "n">>,
     <<"a", "f", "t", "e", "r", "n", "o", "o", "n">>,
     <<"a", "f", "t", "e", "r", " ", "n", "o", "o", "n">>,
     <<"m", "i", "t", "t", "a", "g">>,
     <<"m", "i", "t", "t", "a", "g", "s">>,
     <<"v", "o", "r", "m", "i", "t", "t", "a", "g", "s">>,
     <<"v", "o", "r", " ", "m", "i", "t", "t", "a", "g">>,
     <<"n", "a", "c", "h", "m", "i", "t", "t", "a", "g">>,
     <<"n", "a", "c", "h", "m", "i", "t", "t", "a", "g", "s">>,
     <<"n", "a", "c", "h", " ", "m", "i", "t", "t", "a", "g">>,
     <<"e", "v", "e", "n", "i", "n", "g">>,
     <<"a", "b", "e", "n", "d">>,
     <<"a", "b", "e", "n", "d", "s">>,
     <<"A", "b", "e", "n", "d", "s">>,
     <<"n", "i", "g", "h", "t">>,
     <<"n", "a", "c", "h", "t">>,
     <<"n", "a", "c", "h", "t", "s">>,
     <<"N", "a", "c", "h", "t", "s">>}

(***************************************************************************)
(* SpecPOD: the terminal rules that call _podFromMatch; they do not read   *)
(* ts.                                                                     *)
(***************************************************************************)
InitPOD ==
    /\ ts = TsScenario
    /\ prod = <<>>
    /\ last = NoLast
    /\ nb = <<>>
    /\ scored = <<>>

NextPOD ==
    \/ PODRule(PodTexts, ModTexts)
    \/ DOWRule(DowPodTexts)
    \/ Reset

SpecPOD == InitPOD /\ [][NextPOD]_vars

\* _podFromMatch has been called by the last rule application
PodFromMatchCalled ==
    \/ Fired("rulePOD")
    \/ Fired("ruleDOW") /\ last.args[2] # <<>>

\* the text of the pod group it was called with, as the if/elif chain sees it
CalledPod == strip(lower(IF Fired("rulePOD") THEN last.args[1] ELSE last.args[2]))

\* the tag it returned is `base`, with or without a modifier
TaggedAs(base) ==
    \E mod \in {<<>>, S_early, S_late} : last.out.POD = mod \o base

\* the returned tag is a key of pod_hours
PodTagIsKey == PodFromMatchCalled => last.out.POD \in DOMAIN pod_hours

\* "nacht", "nachts" give night
NachtIsNight ==
    (PodFromMatchCalled /\ startswith(CalledPod, S_nacht)) => TaggedAs(S_night)

\* "nachmittag", "nach mittags" give afternoon
NachMittagIsAfternoon ==
    (/\ PodFromMatchCalled
     /\ startswith(CalledPod, S_nach)
     /\ contains(CalledPod, S_mittag)) => TaggedAs(S_afternoon)

\* C12: whenever rulePOD or a weekday rule has called _podFromMatch on a text
\* of its pod group, the tag of the Time it built is a key of pod_hours, is
\* night (with or without a modifier) for a text that starts with "nacht",
\* and is afternoon for a text that starts with "nach" and holds "mittag".
C12_PodFromMatchNormalises ==
    /\ PodTagIsKey
    /\ NachtIsNight
    /\ NachMittagIsAfternoon

=============================================================================
